---- MODULE Spec2Model ----
(***************************************************************************)
(* Model of the weather collection script (src/main.py): a poll loop that  *)
(* fetches a reading and inserts it into the weather_data table, and a     *)
(* command loop that reads lines from the console and dispatches "export"  *)
(* and "exit".  Both are coroutines of one asyncio event loop, so a step   *)
(* of the model is the code one coroutine runs between two suspension      *)
(* points.                                                                 *)
(*                                                                         *)
(* Units.  Wall-clock time is counted in ticks, TicksPerSecond to a        *)
(* second.  Wind direction is counted in half degrees (45 is 22.5 degrees, *)
(* 720 is 360 degrees).  Pressure is kept in 1e-5 mmHg so that the factor  *)
(* 0.75006 is the integer 75006.  Strings the code compares character by   *)
(* character (console lines) are sequences of one-character strings.       *)
(* Column labels and compass labels are written in ASCII: "Temperature     *)
(* (C)" stands for the label with the degree sign, "N", "NE", ... for the  *)
(* localized compass labels of the source.                                 *)
(***************************************************************************)
EXTENDS Integers, Sequences, FiniteSets, TLC

VARIABLES
    status,        \* process: "running", "exited" (os._exit), "crashed" (uncaught error)
    exitCode,      \* exit status of the process, -1 while it runs
    rows,          \* the weather_data table, in insertion order
    now,           \* the wall clock, in ticks
    pollpc,        \* weather_loop: "fetch" (awaiting the HTTP response), "save", "sleep"
    response,      \* the last API response received by get_weather_data
    weather_data,  \* weather_loop's local: the last reading get_weather_data returned
    printed,       \* what the current poll iteration has printed: "none", "saved", "error"
    saved,         \* number of "data saved" confirmations printed by weather_loop
    lastLine,      \* handle_user_input's local `command`: the last line read
    outcome,       \* branch the last line took: "none", "export", "exit", "unknown"
    prompts,       \* number of prompts printed by handle_user_input
    files,         \* working directory: filename -> written spreadsheet
    exported       \* the filenames export_to_excel has announced, in order

vars == <<status, exitCode, rows, now, pollpc, response, weather_data, printed,
          saved, lastLine, outcome, prompts, files, exported>>

pollVars == <<pollpc, response, weather_data, printed, saved>>
cmdVars == <<lastLine, outcome, prompts, files, exported>>
procVars == <<status, exitCode>>

----------------------------------------------------------------------------
(* Bounds of the model *)

MaxRows == 3          \* rows the poll loop may insert
MaxTime == 2          \* last tick of the wall clock
MaxPrompts == 3       \* prompts the command loop may print
TicksPerSecond == 2   \* clock resolution below the second
MaxStoreRows == 11    \* rows of a store drawn for the retrieval check

(* Program constants *)

Limit == 10           \* .limit(10)
PressureFactor == 75006 \* 0.75006, in 1e-5

Min(a, b) == IF a < b THEN a ELSE b

NoResponse == [temperature |-> 0, windspeed |-> 0, winddirection2 |-> 0,
               pressure_msl |-> 0, precipitation |-> 0, received |-> FALSE]

NoData == [temperature |-> 0, wind_speed |-> 0, wind_direction |-> "",
           pressure |-> 0, precipitation_type |-> "",
           precipitation_amount |-> 0]

----------------------------------------------------------------------------
(* get_weather_data: mapping of the API response to a reading *)

wind_direction_map == <<"N", "NE", "E", "SE", "S", "SW", "W", "NW">>

\* int((degrees + 22.5) % 360) // 45, on half degrees d2 = 2 * degrees.
\* (d2 + 45) % 720 is twice the float (degrees + 22.5) % 360; int() drops
\* the half; // 45 is the integer division.
WindIndexNoOffset(d2) == ((d2 % 720) \div 2) \div 45

WindIndex(d2) == (((d2 + 45) % 720) \div 2) \div 45

ParseResponse(r) ==
    [temperature |-> r.temperature,
     wind_speed |-> r.windspeed,
     wind_direction |-> wind_direction_map[WindIndex(r.winddirection2) + 1],
     pressure |-> r.pressure_msl * PressureFactor,
     precipitation_type |-> IF r.precipitation > 0 THEN "rain" ELSE "none",
     precipitation_amount |-> r.precipitation]

\* API responses the poll loop may receive (inputs of the model).
ApiResponse(d2, p) ==
    [temperature |-> 5, windspeed |-> 3, winddirection2 |-> d2,
     pressure_msl |-> 1013, precipitation |-> p, received |-> TRUE]

\* The response the poll loop receives in the runs of the whole program.
Responses == {ApiResponse(180, 2)}

\* Every wind direction in [0, 360) by half degrees, dry and wet.
WindResponses == {ApiResponse(d2, p) : d2 \in 0..719, p \in {0, 2}}

----------------------------------------------------------------------------
(* The store: table weather_data *)

RECURSIVE MaxId(_)
MaxId(rs) == IF rs = <<>> THEN 0
             ELSE LET m == MaxId(Tail(rs))
                  IN IF Head(rs).id > m THEN Head(rs).id ELSE m

NextIdReused(rs) == 1

\* Integer primary key without AUTOINCREMENT: the largest id in use plus one.
NextId(rs) == MaxId(rs) + 1

\* WeatherData(**data), session.add, session.commit: one row appended, its
\* id assigned by the table and its timestamp defaulted to utcnow().
Insert(rs, d, t) ==
    Append(rs, [id |-> NextId(rs), timestamp |-> t,
                temperature |-> d.temperature,
                wind_speed |-> d.wind_speed,
                wind_direction |-> d.wind_direction,
                pressure |-> d.pressure,
                precipitation_type |-> d.precipitation_type,
                precipitation_amount |-> d.precipitation_amount])

Reverse(s) == [i \in 1..Len(s) |-> s[Len(s) + 1 - i]]

\* One step of the sort: x goes after the rows at least as recent as it.
RECURSIVE PlaceDesc(_, _)
PlaceDesc(x, sorted) ==
    IF sorted = <<>> THEN <<x>>
    ELSE IF Head(sorted).timestamp >= x.timestamp
         THEN <<Head(sorted)>> \o PlaceDesc(x, Tail(sorted))
         ELSE <<x>> \o sorted

RECURSIVE PlaceAsc(_, _)
PlaceAsc(x, sorted) ==
    IF sorted = <<>> THEN <<x>>
    ELSE IF Head(sorted).timestamp <= x.timestamp
         THEN <<Head(sorted)>> \o PlaceAsc(x, Tail(sorted))
         ELSE <<x>> \o sorted

RECURSIVE SortAsc(_, _)
SortAsc(scan, acc) ==
    IF scan = <<>> THEN acc
    ELSE SortAsc(Tail(scan), PlaceAsc(Head(scan), acc))

\* The rows of scan placed one by one into the sorted result acc.
RECURSIVE SortDesc(_, _)
SortDesc(scan, acc) ==
    IF scan = <<>> THEN acc
    ELSE SortDesc(Tail(scan), PlaceDesc(Head(scan), acc))

OrderByTimestampAsc(scan) == SortAsc(scan, <<>>)

\* order_by(WeatherData.timestamp.desc())
OrderByTimestampDesc(scan) == SortDesc(scan, <<>>)

\* query(WeatherData).order_by(timestamp.desc()).limit(10).all().  The
\* order of rows with equal timestamps is not fixed by the query: the table
\* is scanned forward or backward (forward |-> TRUE / FALSE).
Query(rs, forward) ==
    LET sorted == OrderByTimestampDesc(IF forward THEN rs ELSE Reverse(rs))
    IN SubSeq(sorted, 1, Min(Limit, Len(sorted)))

----------------------------------------------------------------------------
(* export_to_excel *)

Columns == <<"Timestamp", "Temperature (C)", "Wind Speed (m/s)",
             "Wind Direction", "Pressure (mmHg)", "Precipitation Type",
             "Precipitation Amount (mm)">>

\* The dict built for one row d: its keys in order, and its values.
DictKeys(d) == Columns
DictValues(d) == <<d.timestamp, d.temperature, d.wind_speed, d.wind_direction,
                   d.pressure, d.precipitation_type, d.precipitation_amount>>

\* pd.DataFrame(list of dicts): the columns are the keys of the dicts, so a
\* frame built from an empty list has no columns.
DataFrame(ds) ==
    [columns |-> IF ds = <<>> THEN <<>> ELSE DictKeys(ds[1]),
     values |-> [i \in 1..Len(ds) |-> DictValues(ds[i])]]

\* strftime("%Y%m%d_%H%M%S"): the time cut to the whole second.
strftime(t) == t \div TicksPerSecond

Filename(t) == [prefix |-> "weather_data_", stamp |-> strftime(t), ext |-> ".xlsx"]

\* df.to_excel(filename, index=False): the file is created or replaced.
to_excel(fs, name, df) ==
    [f \in DOMAIN fs \cup {name} |-> IF f = name THEN df ELSE fs[f]]

----------------------------------------------------------------------------
(* Console lines *)

exportCmd == <<"e", "x", "p", "o", "r", "t">>
exitCmd == <<"e", "x", "i", "t">>

\* Lines the user may type (inputs of the model).
Lines == {exportCmd,
          <<"E", "X", "P", "O", "R", "T">>,
          <<" ", "e", "x", "p", "o", "r", "t", " ">>,
          exitCmd,
          <<"E", "X", "I", "T">>,
          <<"q", "u", "i", "t">>}

LowerChar(c) ==
    CASE c = "E" -> "e" [] c = "X" -> "x" [] c = "P" -> "p" [] c = "O" -> "o"
      [] c = "R" -> "r" [] c = "T" -> "t" [] c = "I" -> "i" [] c = "Q" -> "q"
      [] c = "U" -> "u" [] OTHER -> c

CaseSensitive(s) == s

\* str.lower()
lower(s) == [i \in 1..Len(s) |-> LowerChar(s[i])]

----------------------------------------------------------------------------
(* Initial state: first start, the table just created and empty, the banner
   and the first prompt printed, the first fetch under way. *)

Init ==
    /\ status = "running"
    /\ exitCode = -1
    /\ rows = <<>>
    /\ now = 0
    /\ pollpc = "fetch"
    /\ response = NoResponse
    /\ weather_data = NoData
    /\ printed = "none"
    /\ saved = 0
    /\ lastLine = <<>>
    /\ outcome = "none"
    /\ prompts = 1
    /\ files = <<>>
    /\ exported = <<>>

----------------------------------------------------------------------------
(* weather_loop *)

PollExceptFatal ==
    /\ printed' = "error"
    /\ pollpc' = pollpc
    /\ status' = "crashed"
    /\ exitCode' = 1

\* except Exception as e: print(...), then on to asyncio.sleep(180).
PollExcept ==
    /\ printed' = "error"
    /\ pollpc' = "sleep"
    /\ UNCHANGED procVars

\* get_weather_data returns a reading, mapped from a response of received.
PollFetch(received) ==
    /\ status = "running"
    /\ pollpc = "fetch"
    /\ \E r \in received :
          /\ response' = r
          /\ weather_data' = ParseResponse(r)
    /\ pollpc' = "save"
    /\ UNCHANGED <<procVars, rows, now, printed, saved, cmdVars>>

PollFetchOk == PollFetch(Responses)

\* get_weather_data raises (network error, bad status, missing field).
PollFetchErr ==
    /\ status = "running"
    /\ pollpc = "fetch"
    /\ PollExcept
    /\ UNCHANGED <<rows, now, response, weather_data, saved, cmdVars>>

\* save_to_db commits, the confirmation is printed, the loop sleeps.
PollSaveOk ==
    /\ status = "running"
    /\ pollpc = "save"
    /\ Len(rows) < MaxRows
    /\ rows' = Insert(rows, weather_data, now)
    /\ printed' = "saved"
    /\ saved' = saved + 1
    /\ pollpc' = "sleep"
    /\ UNCHANGED <<procVars, now, response, weather_data, cmdVars>>

\* save_to_db raises (the commit fails): nothing is written.
PollSaveErr ==
    /\ status = "running"
    /\ pollpc = "save"
    /\ PollExcept
    /\ UNCHANGED <<rows, now, response, weather_data, saved, cmdVars>>

\* asyncio.sleep(180) is over: the next iteration starts its fetch.
PollWake ==
    /\ status = "running"
    /\ pollpc = "sleep"
    /\ pollpc' = "fetch"
    /\ printed' = "none"
    /\ UNCHANGED <<procVars, rows, now, response, weather_data, saved, cmdVars>>

Poll == PollFetchOk \/ PollFetchErr \/ PollSaveOk \/ PollSaveErr \/ PollWake

----------------------------------------------------------------------------
(* handle_user_input *)

ReturnFromLoop ==
    /\ status' = status
    /\ exitCode' = exitCode

\* os._exit(0): the process is gone at once, with every coroutine in it.
os_exit ==
    /\ status' = "exited"
    /\ exitCode' = 0

\* An exception leaves handle_user_input: gather re-raises it in main,
\* asyncio.run cancels weather_loop and the interpreter ends with status 1.
Uncaught ==
    /\ status' = "crashed"
    /\ exitCode' = 1

\* export_to_excel, run to its end without suspension.  ok is FALSE when
\* to_excel raises (the file cannot be written).
export_to_excel(forward, ok) ==
    LET result == Query(rows, forward)
        filename == Filename(now)
    IN IF ok
       THEN /\ files' = to_excel(files, filename, DataFrame(result))
            /\ exported' = Append(exported, filename)
            /\ prompts' = prompts + 1
            /\ UNCHANGED procVars
       ELSE /\ Uncaught
            /\ UNCHANGED <<files, exported, prompts>>

\* One line read by ainput and dispatched.
handle_user_input(command) ==
    /\ status = "running"
    /\ lastLine' = command
    /\ IF lower(command) = exportCmd
       THEN /\ outcome' = "export"
            /\ prompts < MaxPrompts
            /\ \E forward \in BOOLEAN, ok \in BOOLEAN : export_to_excel(forward, ok)
       ELSE IF lower(command) = exitCmd
       THEN /\ outcome' = "exit"
            /\ os_exit
            /\ UNCHANGED <<prompts, files, exported>>
       ELSE /\ outcome' = "unknown"
            /\ prompts < MaxPrompts
            /\ prompts' = prompts + 1
            /\ UNCHANGED <<procVars, files, exported>>
    /\ UNCHANGED <<rows, now, pollVars>>

Command == \E command \in Lines : handle_user_input(command)

\* The wall clock advances.
Tick ==
    /\ status = "running"
    /\ now < MaxTime
    /\ now' = now + 1
    /\ UNCHANGED <<procVars, rows, pollVars, cmdVars>>

Next == Poll \/ Command \/ Tick

Spec == Init /\ [][Next]_vars

\* The scheduling of the event loop: a fetch, an insert and a sleep that
\* return let weather_loop take its next step.
FairSpec == Spec /\ WF_vars(Poll)

----------------------------------------------------------------------------
(* The wind direction mapping on its own: the poll loop receiving any
   response, its inserts failing so that the table stays empty. *)

PollFetchAnyWind == PollFetch(WindResponses)

NextWind == PollFetchAnyWind \/ PollSaveErr \/ PollWake

SpecWind == Init /\ [][NextWind]_vars

----------------------------------------------------------------------------
(* The retrieval of export on its own: the program started on a table that
   earlier runs filled, under a clock that may have been set back between
   inserts, so the timestamps come in any order. *)

Stamps == {0, 1}

StoredRow(i, t) ==
    [id |-> i, timestamp |-> t, temperature |-> 5, wind_speed |-> 3,
     wind_direction |-> "E", pressure |-> 1013 * PressureFactor,
     precipitation_type |-> "rain", precipitation_amount |-> 2]

StoreContents ==
    UNION {{[i \in 1..n |-> StoredRow(i, ts[i])] : ts \in [1..n -> Stamps]} :
           n \in 0..MaxStoreRows}

InitRecent ==
    /\ rows \in StoreContents
    /\ status = "running"
    /\ exitCode = -1
    /\ now = 0
    /\ pollpc = "fetch"
    /\ response = NoResponse
    /\ weather_data = NoData
    /\ printed = "none"
    /\ saved = 0
    /\ lastLine = <<>>
    /\ outcome = "none"
    /\ prompts = 1
    /\ files = <<>>
    /\ exported = <<>>

Export == handle_user_input(exportCmd)

NextRecent == Export

SpecRecent == InitRecent /\ [][NextRecent]_vars

----------------------------------------------------------------------------
(* Claims *)

\* C1: an iteration of weather_loop in which the fetch or the insert raises
\* prints the error and nothing more: the table keeps its rows, no
\* confirmation is counted, the process keeps running, the loop goes to its
\* sleep, and a sleeping loop of a running process can always start the
\* next iteration, which begins with a fetch and touches no row.
C1_ErrorStep ==
    (printed = "none" /\ printed' = "error") =>
        /\ rows' = rows
        /\ saved' = saved
        /\ status = "running" /\ status' = "running"
        /\ pollpc \in {"fetch", "save"} /\ pollpc' = "sleep"

C1_AfterSleep ==
    (pollpc = "sleep" /\ pollpc' # "sleep") =>
        pollpc' = "fetch" /\ rows' = rows /\ status' = "running"

C1_ErrorAbsorbed ==
    /\ []((status = "running" /\ pollpc = "sleep") => ENABLED PollWake)
    /\ [][C1_ErrorStep /\ C1_AfterSleep]_vars

\* An iteration failed after a row was stored; the loop is in its sleep.
C1_Witness ==
    /\ printed = "error" /\ pollpc = "sleep" /\ status = "running"
    /\ Len(rows) >= 1

\* C2: the table holds one row per confirmed iteration, ids strictly
\* increasing in insertion order; the only change the table ever sees is one
\* row appended by an iteration that then prints its confirmation, with an
\* id above every id in use.  Commands and failed iterations change no row.
C2_Rows ==
    /\ Len(rows) = saved
    /\ \A i \in 1..Len(rows), j \in 1..Len(rows) : i < j => rows[i].id < rows[j].id

C2_Change ==
    rows' # rows =>
        /\ Len(rows') = Len(rows) + 1
        /\ SubSeq(rows', 1, Len(rows)) = rows
        /\ \A i \in 1..Len(rows) : rows[i].id < rows'[Len(rows')].id
        /\ pollpc = "save" /\ printed' = "saved" /\ saved' = saved + 1
        /\ UNCHANGED cmdVars

C2_OneRowPerSuccess == []C2_Rows /\ [][C2_Change]_vars

\* Three iterations succeeded, one export and one unknown command were handled.
C2_Witness ==
    /\ Len(rows) = 3 /\ saved = 3
    /\ rows[1].id < rows[2].id /\ rows[2].id < rows[3].id
    /\ Len(exported) = 1 /\ outcome = "unknown"

\* C3: every file written by export holds min(10, N) of the N rows of the
\* table, newest first, and no row left out is newer than a row written.
Count(seq, t) == Cardinality({i \in 1..Len(seq) : seq[i] = t})

StampsOf(rs) == [i \in 1..Len(rs) |-> rs[i].timestamp]

Written(f) == [i \in 1..Len(files[f].values) |-> files[f].values[i][1]]

C3_MostRecent ==
    \A f \in DOMAIN files :
        LET got == Written(f)
            all == StampsOf(rows)
        IN /\ Len(got) = Min(10, Len(rows))
           /\ \A i \in 1..Len(got), j \in 1..Len(got) : i < j => got[i] >= got[j]
           /\ \A t \in Stamps :
                /\ Count(got, t) <= Count(all, t)
                /\ Count(got, t) < Count(all, t) =>
                       \A i \in 1..Len(got) : got[i] >= t
           /\ Len(rows) = 0 => files[f].values = <<>>
           /\ \A i \in 1..Len(got) :
                \E k \in 1..Len(rows) : files[f].values[i] = DictValues(rows[k])

\* An export of a table of 11 rows, older and newer, left a file.
C3_Witness ==
    /\ Len(rows) = 11
    /\ \E i \in 1..11, j \in 1..11 : i < j /\ rows[i].timestamp > rows[j].timestamp
    /\ rows[11].timestamp = 1 /\ rows[10].timestamp = 0
    /\ DOMAIN files # {}

\* C4 as stated: the branch taken is decided by the line with surrounding
\* blanks removed and letter case ignored.
RECURSIVE lstrip(_)
lstrip(s) == IF s # <<>> /\ Head(s) = " " THEN lstrip(Tail(s)) ELSE s

strip(s) == Reverse(lstrip(Reverse(lstrip(s))))

C4_DispatchOnTrimmedLine ==
    outcome # "none" =>
        /\ outcome = "export" <=> strip(lower(lastLine)) = exportCmd
        /\ outcome = "exit" <=> strip(lower(lastLine)) = exitCmd

\* C4 amended: the branch taken is decided by the line with letter case
\* ignored and nothing removed: export runs iff the line spells "export" in
\* any mix of cases, the process exits iff it spells "exit", and any other
\* line, blanks around a command included, is unknown: nothing is written,
\* the process keeps running and the prompt is printed again.
UpperOf(c) ==
    CASE c = "e" -> "E" [] c = "x" -> "X" [] c = "p" -> "P" [] c = "o" -> "O"
      [] c = "r" -> "R" [] c = "t" -> "T" [] c = "i" -> "I" [] OTHER -> c

Spells(line, word) ==
    /\ Len(line) = Len(word)
    /\ \A i \in 1..Len(word) : line[i] \in {word[i], UpperOf(word[i])}

C4_Branch ==
    outcome # "none" =>
        /\ outcome = "export" <=> Spells(lastLine, exportCmd)
        /\ outcome = "exit" <=> Spells(lastLine, exitCmd)
        /\ outcome = "unknown" <=>
               ~Spells(lastLine, exportCmd) /\ ~Spells(lastLine, exitCmd)
        /\ outcome = "exit" => status = "exited"

C4_Effect ==
    /\ prompts' # prompts =>
           prompts' = prompts + 1 /\ status' = "running"
    /\ (prompts' # prompts /\ outcome' = "unknown") =>
           files' = files /\ exported' = exported
    /\ (prompts' # prompts /\ outcome' = "export") =>
           Len(exported') = Len(exported) + 1
    /\ (exported' # exported \/ files' # files) => outcome' = "export"
    /\ (status = "running" /\ status' = "exited") => outcome' = "exit"

C4_DispatchIgnoresCaseOnly == []C4_Branch /\ [][C4_Effect]_vars

\* "EXPORT" ran the export; before it a line was unknown.
C4_Witness ==
    /\ lastLine = <<"E", "X", "P", "O", "R", "T">>
    /\ outcome = "export" /\ Len(exported) = 1 /\ prompts = 3
    /\ status = "running"

\* C5: once "exit" has been read the process is gone with status 0 and
\* nothing changes any more: no fetch starts, no row is inserted, no line is
\* read, whatever the poll loop was doing.
C5_ExitIsFinal ==
    /\ [](outcome = "exit" => status = "exited" /\ exitCode = 0)
    /\ [][outcome = "exit" => UNCHANGED vars]_vars

\* "exit" was read while a fetched reading was waiting to be inserted.
C5_Witness ==
    /\ outcome = "exit" /\ status = "exited"
    /\ pollpc = "save" /\ Len(rows) >= 1

\* C6 as stated: the process stops only by the "exit" command.
C6_OnlyExitTerminates == status # "running" => outcome = "exit"

\* C7 as stated: every exported file has the 7 columns as its header,
\* whatever the number of rows exported, 0 included.
C7_HeaderAlwaysWritten ==
    \A f \in DOMAIN files :
        /\ files[f].columns = Columns
        /\ Len(files[f].values) \in 0..10

\* C8 as stated: unless "exit" is entered, the poll loop goes through its
\* sleep and starts a new iteration again and again.
C8_PollLoopNeverStops ==
    <>(outcome = "exit") \/ ([]<>(pollpc = "sleep") /\ []<>(pollpc = "fetch"))

\* C9 as stated: no two exports of a run write to the same filename.
C9_ExportsNeverCollide ==
    \A i \in 1..Len(exported), j \in 1..Len(exported) :
        i # j => exported[i] # exported[j]

\* C10: for a wind direction of d2 half degrees in [0, 360) the reading's
\* label is the one of the 8 labels, clockwise from North, at index
\* floor(((degrees + 22.5) mod 360) / 45), which is in 0..7; the label is
\* that of the 45 degree sector centred on its compass point, so it changes
\* exactly at 22.5, 67.5, ..., 337.5 degrees (0 -> N, 90 -> E, 359 -> N).
Compass == <<"N", "NE", "E", "SE", "S", "SW", "W", "NW">>

InSector(d2, k) ==
    IF k = 0 THEN d2 < 45 \/ d2 >= 675
    ELSE 90 * k - 45 <= d2 /\ d2 < 90 * k + 45

C10_WindLabel ==
    response.received =>
        LET d2 == response.winddirection2
            floorIndex == ((d2 + 45) % 720) \div 90
            label == weather_data.wind_direction
        IN /\ floorIndex \in 0..7
           /\ label = Compass[floorIndex + 1]
           /\ \A k \in 0..7 : InSector(d2, k) <=> label = Compass[k + 1]
           /\ d2 = 0 => label = "N"
           /\ d2 = 180 => label = "E"
           /\ d2 = 718 => label = "N"
           /\ d2 = 45 => label = "NE"
           /\ d2 = 44 => label = "N"

\* The reading of a wind of 337.5 degrees, the last boundary.
C10_Witness ==
    /\ response.received /\ response.winddirection2 = 675
    /\ weather_data.wind_direction = "N" /\ pollpc = "save"

====
